---- MODULE Spec2Model ----
(***************************************************************************)
(* generate_diagram.py: the per-file chart renderer                        *)
(* (plot_query_performance), the cross-file aggregator                     *)
(* (plot_geometric_mean_performance) and the driver (process_all_csvs).    *)
(*                                                                         *)
(* A CSV file is what pandas makes of it: whether read_csv succeeds, the   *)
(* columns of the table, whether the rows column was parsed as text, and   *)
(* the records in file order.  A file is read when the code reads it       *)
(* (read_csv), so its content is an input of the step that reads it.       *)
(***************************************************************************)
EXTENDS Integers, Sequences, FiniteSets, TLC

VARIABLES
    entry,            \* the function of the module that was called
    save_plots,       \* the save_plots argument
    csv_files,        \* glob.glob("*.csv"): the enumerated file names
    pc,               \* position of the control flow
    i,                \* index in csv_files of the running for loop
    disk,             \* the content of the files that were read and will
                      \* be read again, by file name
    df,               \* the table read last by pd.read_csv
    stdout,           \* the lines printed so far, as <<kind, file>>
    figs,             \* the matplotlib figures that are open
    outputs,          \* the PNG files written
    chart,            \* what was drawn on the figure created last
    all_data,         \* the aggregator's list of retained records
    geometric_means,  \* the aggregator's table of geometric means
    calls,            \* history: the calls made, as <<function, file>>
    covered,          \* history: the <<query, rows, DB>> of a designated
                      \* engine the aggregator has read a latency above 0 for
    single            \* history: each table it read held exactly one record

vars == <<entry, save_plots, csv_files, pc, i, disk, df, stdout, figs, outputs,
          chart, all_data, geometric_means, calls, covered,
          single>>

----------------------------------------------------------------------------
(* Bounds of the model *)

MaxFiles == 3
MaxRecs == 3

----------------------------------------------------------------------------
(* Constants of the program *)

time_col == "Med_ms"

required_cols == {"DB", "rows", time_col}

preferred_order == <<"Postgres", "SQLite", "HSQLDB">>

target_dbs == {"Postgres", "SQLite", "HSQLDB"}

db_order == <<"Postgres", "SQLite", "HSQLDB">>

(* The order Python and pandas sort these database names in (by code point). *)
StrRank(s) ==
    CASE s = "Derby" -> 1
      [] s = "HSQLDB" -> 2
      [] s = "MySQL" -> 3
      [] s = "Postgres" -> 4
      [] s = "Q1" -> 5
      [] s = "Q2" -> 6
      [] s = "SQLite" -> 7

----------------------------------------------------------------------------
(* Sequences, sorting, arithmetic *)

Range(s) == {s[k] : k \in 1..Len(s)}

Contains(s, x) == \E k \in 1..Len(s) : s[k] = x

(* pandas' unique(): the distinct values in order of first appearance *)
RECURSIVE Unique(_)
Unique(s) ==
    IF s = <<>> THEN <<>>
    ELSE LET init == Unique(SubSeq(s, 1, Len(s) - 1))
             last == s[Len(s)]
         IN IF Contains(init, last) THEN init ELSE Append(init, last)

(* the elements of the finite set S in ascending order; less[x, y] is the  *)
(* strict order that the sort compares by                                   *)
RECURSIVE SortSet(_, _)
SortSet(S, less) ==
    IF S = {} THEN <<>>
    ELSE LET m == CHOOSE x \in S : \A y \in S \ {x} : less[x, y]
         IN <<m>> \o SortSet(S \ {m}, less)

RECURSIVE SumSeq(_)
SumSeq(s) == IF s = <<>> THEN 0 ELSE s[1] + SumSeq(Tail(s))

RECURSIVE ProdSeq(_)
ProdSeq(s) == IF s = <<>> THEN 1 ELSE s[1] * ProdSeq(Tail(s))

RECURSIVE Gcd(_, _)
Gcd(a, b) == IF b = 0 THEN a ELSE Gcd(b, a % b)

Abs(a) == IF a < 0 THEN -a ELSE a

(* Mean with an integer division: the mean cut to an integer *)
MeanFloor(s) == [num |-> SumSeq(s) \div Len(s), den |-> 1]

(* aggfunc="mean": the sum over the count, kept exact as a reduced fraction *)
Mean(s) ==
    LET t == SumSeq(s)
        g == Gcd(Abs(t), Len(s))
    IN [num |-> t \div g, den |-> Len(s) \div g]

(* scipy.stats.gmean: the n-th root of the product of the n values, kept   *)
(* exact as the product and n                                              *)
gmean(s) == [prod |-> ProdSeq(s), n |-> Len(s)]

----------------------------------------------------------------------------
(* plot_query_performance *)

Zero == [num |-> 0, den |-> 1]

NoChart == [pivot_df |-> <<>>, dbs |-> <<>>, rows |-> <<>>, bar_width |-> 0,
            bars |-> <<>>, labels |-> <<>>]

(* HasRequired without the latency column *)
HasRequiredNoTime(f) == {"DB", "rows"} \subseteq f.columns

HasRequired(f) == required_cols \subseteq f.columns

(* the latency values of the records of (db, rows), in file order *)
TimesOf(recs, db, rows) ==
    LET sel == SelectSeq(recs, LAMBDA r : r.DB = db /\ r.rows = rows)
    IN [k \in 1..Len(sel) |-> sel[k].time]

(* df.pivot_table(index=["DB", "rows"], values=time_col, aggfunc="mean")   *)
(* .reset_index(): one row per (DB, rows) of the table, sorted by the index *)
pivot_table(recs) ==
    LET keys == {<<recs[k].DB, recs[k].rows>> : k \in 1..Len(recs)}
        less == [x \in keys, y \in keys |->
                    \/ StrRank(x[1]) < StrRank(y[1])
                    \/ x[1] = y[1] /\ x[2] < y[2]]
        sorted == SortSet(keys, less)
    IN [k \in 1..Len(sorted) |->
            [DB |-> sorted[k][1], rows |-> sorted[k][2],
             val |-> Mean(TimesOf(recs, sorted[k][1], sorted[k][2]))]]

(* ordered_dbs without the preferred order: the order of the pivoted table *)
ordered_dbs_as_pivoted(pivot_df) ==
    Unique([k \in 1..Len(pivot_df) |-> pivot_df[k].DB])

(* the database order of the chart: the preferred ones that exist, then the *)
(* remaining ones of pivot_df["DB"].unique()                                *)
ordered_dbs(pivot_df) ==
    LET available_dbs == Unique([k \in 1..Len(pivot_df) |-> pivot_df[k].DB])
        dbs == SelectSeq(preferred_order, LAMBDA db : Contains(available_dbs, db))
    IN dbs \o SelectSeq(available_dbs, LAMBDA db : ~Contains(dbs, db))

IndexOf(s, x) == CHOOSE k \in 1..Len(s) : s[k] = x

(* pivot_df.sort_values(["DB", "rows"]) with DB categorical in the order dbs *)
sort_values(pivot_df, dbs) ==
    LET S == Range(pivot_df)
        less == [x \in S, y \in S |->
                    \/ IndexOf(dbs, x.DB) < IndexOf(dbs, y.DB)
                    \/ x.DB = y.DB /\ x.rows < y.rows]
    IN SortSet(S, less)

(* sorted(pivot_df["rows"].unique()) *)
sorted_rows(pivot_df) ==
    LET S == {pivot_df[k].rows : k \in 1..Len(pivot_df)}
    IN SortSet(S, [x \in S, y \in S |-> x < y])

(* the heights of the bars of one row count: the pivoted value of each      *)
(* database, 0 where the pair is missing                                    *)
bar_values(pivot_df, dbs, row) ==
    [j \in 1..Len(dbs) |->
        LET db_row_data == SelectSeq(pivot_df,
                               LAMBDA p : p.DB = dbs[j] /\ p.rows = row)
        IN IF Len(db_row_data) > 0 THEN db_row_data[1].val ELSE Zero]

(* the bars that get a value label: those with v > 0 *)
bar_labels(values) == {j \in 1..Len(values) : values[j].num > 0}

(* bar_width in hundredths *)
bar_width(rows) == IF Len(rows) <= 2 THEN 35 ELSE 20

(* except_clause with a handler that prints and raises again *)
except_clause_reraise(fig_open, drawn) ==
    [msg |-> "Error processing", fig_open |-> fig_open, png |-> FALSE,
     chart |-> drawn, raised |-> TRUE]

(* except Exception as e: print(...).  The handler prints and returns: the *)
(* figure stays as it was and no exception leaves the function.            *)
except_clause(fig_open, drawn) ==
    [msg |-> "Error processing", fig_open |-> fig_open, png |-> FALSE,
     chart |-> drawn, raised |-> FALSE]

(* One call of plot_query_performance on the file content f.  The result:   *)
(* the line it prints, whether it leaves a figure open, whether it wrote    *)
(* the PNG, what it drew, and whether an exception left the function.       *)
plot_query_performance(f, save) ==
    IF ~f.readable
    THEN \* pd.read_csv raises
         except_clause(FALSE, NoChart)
    ELSE IF ~HasRequired(f)
    THEN [msg |-> "Skipping", fig_open |-> FALSE, png |-> FALSE,
          chart |-> NoChart, raised |-> FALSE]
    ELSE LET pivot_df0 == pivot_table(f.recs)
             dbs == ordered_dbs(pivot_df0)
             pivot_df == sort_values(pivot_df0, dbs)
             rows == sorted_rows(pivot_df)
             drawn == [pivot_df |-> pivot_df, dbs |-> dbs, rows |-> rows,
                       bar_width |-> bar_width(rows),
                       bars |-> [k \in 1..Len(rows) |->
                                    bar_values(pivot_df, dbs, rows[k])],
                       labels |-> [k \in 1..Len(rows) |->
                                    bar_labels(bar_values(pivot_df, dbs, rows[k]))]]
         IN IF f.rows_text
            THEN \* the figure exists (plt.subplots); the label f"{row:,} rows"
                 \* of the first ax.bar raises ValueError for a str
                 except_clause(TRUE, [drawn EXCEPT !.bars = <<>>, !.labels = <<>>])
            ELSE IF save
            THEN \* plt.savefig, print, plt.close(fig)
                 [msg |-> "Saved plot", fig_open |-> FALSE, png |-> TRUE,
                  chart |-> drawn, raised |-> FALSE]
            ELSE \* plt.show()
                 [msg |-> "Shown", fig_open |-> TRUE, png |-> FALSE,
                  chart |-> drawn, raised |-> FALSE]

----------------------------------------------------------------------------
(* plot_geometric_mean_performance *)

RECURSIVE Flatten(_)
Flatten(ss) == IF ss = <<>> THEN <<>> ELSE ss[1] \o Flatten(Tail(ss))

(* group_records without the target_dbs.issubset test *)
group_records_any_group(recs, rows, query, rows_text, csv_file) ==
    LET group == SelectSeq(recs, LAMBDA r : r.rows = rows /\ r.query = query)
        kept == SelectSeq(group, LAMBDA r : r.DB \in target_dbs /\ r.time > 0)
    IN [k \in 1..Len(kept) |->
            [DB |-> kept[k].DB, rows |-> rows, query |-> query,
             time |-> kept[k].time, file |-> csv_file,
             rows_text |-> rows_text]]

(* group_records without the test of the database and the latency *)
group_records_unfiltered(recs, rows, query, rows_text, csv_file) ==
    LET group == SelectSeq(recs, LAMBDA r : r.rows = rows /\ r.query = query)
        available_dbs == {group[k].DB : k \in 1..Len(group)}
    IN IF target_dbs \subseteq available_dbs
       THEN [k \in 1..Len(group) |->
                [DB |-> group[k].DB, rows |-> rows, query |-> query,
                 time |-> group[k].time, file |-> csv_file,
                 rows_text |-> rows_text]]
       ELSE <<>>

(* the records one (rows, query) group of the table adds to all_data: none  *)
(* unless the group holds all of target_dbs, else its records of a target   *)
(* database with a latency above 0, in file order, tagged with the file     *)
group_records(recs, rows, query, rows_text, csv_file) ==
    LET group == SelectSeq(recs, LAMBDA r : r.rows = rows /\ r.query = query)
        available_dbs == {group[k].DB : k \in 1..Len(group)}
        kept == SelectSeq(group, LAMBDA r : r.DB \in target_dbs /\ r.time > 0)
    IN IF target_dbs \subseteq available_dbs
       THEN [k \in 1..Len(kept) |->
                [DB |-> kept[k].DB, rows |-> rows, query |-> query,
                 time |-> kept[k].time, file |-> csv_file,
                 rows_text |-> rows_text]]
       ELSE <<>>

(* inner_except with a handler that lets the fault leave the loop *)
inner_except_reraise == [kept |-> <<>>, msg |-> "Error reading", raised |-> TRUE]

(* except Exception as e: print(f"Error reading ..."); continue *)
inner_except == [kept |-> <<>>, msg |-> "Error reading", raised |-> FALSE]

(* One pass of the collection loop over the file content f: the records it  *)
(* appends to all_data, the line it prints ("" for none) and whether an     *)
(* exception left the inner try.                                            *)
collect_file(f, csv_file) ==
    IF ~f.readable
    THEN inner_except
    ELSE IF ~HasRequired(f)
    THEN [kept |-> <<>>, msg |-> "", raised |-> FALSE]
    ELSE IF "query" \notin f.columns
    THEN \* df.groupby(["rows", "query"]) raises KeyError
         inner_except
    ELSE LET keys == {<<f.recs[k].rows, f.recs[k].query>> : k \in 1..Len(f.recs)}
             less == [x \in keys, y \in keys |->
                         \/ x[1] < y[1]
                         \/ x[1] = y[1] /\ StrRank(x[2]) < StrRank(y[2])]
             groups == SortSet(keys, less)
         IN [kept |-> Flatten([k \in 1..Len(groups) |->
                         group_records(f.recs, groups[k][1], groups[k][2],
                                       f.rows_text, csv_file)]),
             msg |-> "", raised |-> FALSE]

NoGm == [prod |-> 0, n |-> 0]

(* geometric_means[db][row_count]: gmean of the retained latencies of the   *)
(* pair, 0 when there are none                                              *)
geometric_mean_table(combined_df, available_dbs, rows) ==
    [db \in Range(available_dbs) |->
        [row_count \in Range(rows) |->
            LET sel == SelectSeq(combined_df,
                           LAMBDA r : r.DB = db /\ r.rows = row_count)
                db_row_data == [k \in 1..Len(sel) |-> sel[k].time]
            IN IF Len(db_row_data) > 0 THEN gmean(db_row_data) ELSE NoGm]]

(* What the aggregator does with all_data once the loop is over: the line   *)
(* it prints, the table of means, the chart, the figure and the PNG.        *)
compute_means(combined_df, save) ==
    IF combined_df = <<>>
    THEN [msg |-> "No data found", means |-> <<>>, chart |-> NoChart,
          fig_open |-> FALSE, png |-> FALSE]
    ELSE LET available_dbs == SelectSeq(db_order,
                 LAMBDA db : \E k \in 1..Len(combined_df) : combined_df[k].DB = db)
             S == {combined_df[k].rows : k \in 1..Len(combined_df)}
             rows == SortSet(S, [x \in S, y \in S |-> x < y])
             means == geometric_mean_table(combined_df, available_dbs, rows)
             text == {combined_df[k].rows_text : k \in 1..Len(combined_df)}
             drawn == [pivot_df |-> <<>>, dbs |-> available_dbs, rows |-> rows,
                       bar_width |-> bar_width(rows),
                       bars |-> [k \in 1..Len(rows) |->
                                   [j \in 1..Len(available_dbs) |->
                                       means[available_dbs[j]][rows[k]]]],
                       labels |-> [k \in 1..Len(rows) |->
                                   {j \in 1..Len(available_dbs) :
                                       means[available_dbs[j]][rows[k]].prod > 0}]]
         IN IF text = {TRUE, FALSE}
            THEN \* sorted() of str and int row counts raises TypeError, before
                 \* the means and the figure; the outer except clause prints
                 [msg |-> "Error generating", means |-> <<>>, chart |-> NoChart,
                  fig_open |-> FALSE, png |-> FALSE]
            ELSE IF text = {TRUE}
            THEN \* f"{row_count:,} rows" raises ValueError after plt.subplots
                 [msg |-> "Error generating", means |-> means,
                  chart |-> [drawn EXCEPT !.bars = <<>>, !.labels = <<>>],
                  fig_open |-> TRUE, png |-> FALSE]
            ELSE IF save
            THEN [msg |-> "Saved geometric mean plot", means |-> means,
                  chart |-> drawn, fig_open |-> FALSE, png |-> TRUE]
            ELSE [msg |-> "Shown", means |-> means, chart |-> drawn,
                  fig_open |-> TRUE, png |-> FALSE]

----------------------------------------------------------------------------
(* The files the model reads *)

Record(db, rows, query, time) ==
    [DB |-> db, rows |-> rows, query |-> query, time |-> time]

AllCols == {"DB", "rows", time_col, "query"}

File(recs) == [readable |-> TRUE, columns |-> AllCols, rows_text |-> FALSE,
               recs |-> recs]

Unreadable == [readable |-> FALSE, columns |-> {}, rows_text |-> FALSE,
               recs |-> <<>>]

SeqsUpTo(S, n) == UNION {[1..k -> S] : k \in 1..n}

(* the non-empty selections of the lines of bench, in the order of bench *)
Selections(bench) ==
    {LET idx == SortSet(S, [x \in S, y \in S |-> x < y])
     IN [k \in 1..Len(idx) |-> bench[idx[k]]] :
        S \in (SUBSET (1..Len(bench))) \ {{}}}

P10 == Record("Postgres", 1000, "Q1", 10)
S20 == Record("SQLite", 1000, "Q1", 20)
H40 == Record("HSQLDB", 1000, "Q1", 40)

Full3 == File(<<P10, S20, H40>>)

(* a table without the latency column, one without the query column, one   *)
(* whose rows column holds text                                             *)
NoTimeCol == [Full3 EXCEPT !.columns = AllCols \ {time_col}]
NoQueryCol == [Full3 EXCEPT !.columns = AllCols \ {"query"}]
TextRows == [Full3 EXCEPT !.rows_text = TRUE]

(* plot_query_performance called on one table of up to MaxRecs records *)
ChartRecords ==
    {Record(db, rows, "Q1", t) :
        db \in {"Postgres", "HSQLDB", "MySQL", "Derby"},
        rows \in {1000, 2000}, t \in {10, 20}}

ChartFiles == {File(recs) : recs \in SeqsUpTo(ChartRecords, MaxRecs)}

(* plot_geometric_mean_performance called on files that each hold some of  *)
(* these measurements, or fail                                              *)
AggBench ==
    <<P10, S20, H40,
      Record("HSQLDB", 1000, "Q1", 0),
      Record("MySQL", 1000, "Q1", 10),
      Record("HSQLDB", 1000, "Q2", 40)>>

AggFiles ==
    {File(recs) : recs \in Selections(AggBench)}
        \cup {Unreadable, NoTimeCol, NoQueryCol}

(* process_all_csvs called on a directory of these files *)
DriverFiles ==
    {Unreadable, NoTimeCol, NoQueryCol, TextRows, File(<<P10>>),
     File(<<P10, S20, H40, Record("MySQL", 1000, "Q1", 10)>>)}

InputFiles(e) ==
    CASE e = "plot_query_performance" -> ChartFiles
      [] e = "plot_geometric_mean_performance" -> AggFiles
      [] e = "process_all_csvs" -> DriverFiles

Entries ==
    {"process_all_csvs", "plot_query_performance",
     "plot_geometric_mean_performance"}

----------------------------------------------------------------------------
(* Actions *)

(* what pd.read_csv(csv_file) can yield: the content the file was read     *)
(* with before, else any content of the input set                          *)
Read(csv_file) ==
    IF csv_file \in DOMAIN disk THEN {disk[csv_file]} ELSE InputFiles(entry)

PerfFig(name) == <<"fig", name>>
PerfPng(name) == <<"performance.png", name>>
GmFig == <<"fig", 0>>
GmPng == <<"geometric_mean_performance.png", 0>>

(* process_all_csvs up to its for loop: glob, the early return, the listing *)
Glob ==
    /\ entry = "process_all_csvs"
    /\ pc = "call"
    /\ IF csv_files = <<>>
       THEN /\ stdout' = Append(stdout, <<"No CSV files found", 0>>)
            /\ pc' = "done"
            /\ i' = i
       ELSE /\ stdout' = Append(stdout, <<"Found", Len(csv_files)>>)
            /\ pc' = "loop"
            /\ i' = 1
    /\ UNCHANGED <<entry, save_plots, csv_files, disk, df, figs, outputs,
                   chart, all_data, geometric_means, covered, single, calls>>

(* after_file with a loop that ends one file early *)
after_file_one_early(k, n) == IF k >= n - 1 THEN "aggregate" ELSE "loop"

(* where process_all_csvs goes after the k-th of n files: the next file,   *)
(* or the aggregator after the last one                                     *)
after_file(k, n) == IF k = n THEN "aggregate" ELSE "loop"

(* the state after plot_query_performance(csv_file, time_col, save_plots)  *)
(* ran on the content f                                                     *)
Rendered(f, csv_file, out) ==
    LET r == plot_query_performance(f, save_plots)
    IN /\ df' = f
       /\ disk' = IF entry = "process_all_csvs" THEN disk @@ (csv_file :> f)
                  ELSE disk
       /\ calls' = Append(calls, <<"plot_query_performance", csv_file>>)
       /\ stdout' = Append(out, <<r.msg, csv_file>>)
       /\ figs' = IF r.fig_open THEN figs \cup {PerfFig(csv_file)} ELSE figs
       /\ outputs' = IF r.png THEN outputs \cup {PerfPng(csv_file)} ELSE outputs
       /\ chart' = r.chart
       /\ pc' = IF r.raised THEN "crashed"
                ELSE IF entry = "plot_query_performance" THEN "done"
                ELSE after_file(i, Len(csv_files))

(* one pass of the for loop of process_all_csvs *)
ProcessFile ==
    /\ entry = "process_all_csvs"
    /\ pc = "loop"
    /\ \E f \in Read(csv_files[i]) :
         Rendered(f, csv_files[i], Append(stdout, <<"Processing", csv_files[i]>>))
    /\ i' = i + 1
    /\ UNCHANGED <<entry, save_plots, csv_files, all_data, geometric_means,
                   covered, single>>

(* a direct call plot_query_performance(csv_files[1], time_col, save_plots) *)
PlotQueryPerformance ==
    /\ entry = "plot_query_performance"
    /\ pc = "call"
    /\ \E f \in Read(csv_files[1]) : Rendered(f, csv_files[1], stdout)
    /\ UNCHANGED <<entry, save_plots, csv_files, i, all_data,
                   geometric_means, covered, single>>

(* plot_geometric_mean_performance up to its for loop *)
AggStart ==
    /\ \/ entry = "process_all_csvs" /\ pc = "aggregate"
       \/ entry = "plot_geometric_mean_performance" /\ pc = "call"
    /\ calls' = Append(calls, <<"plot_geometric_mean_performance", 0>>)
    /\ IF csv_files = <<>>
       THEN /\ stdout' = Append(stdout, <<"No CSV files found", 0>>)
            /\ pc' = "done"
            /\ i' = i
       ELSE /\ stdout' = stdout
            /\ pc' = "collect"
            /\ i' = 1
    /\ all_data' = <<>>
    /\ UNCHANGED <<entry, save_plots, csv_files, disk, df, figs, outputs,
                   chart, geometric_means, covered, single>>

(* one pass of the collection loop *)
Collect ==
    /\ pc = "collect"
    /\ \E f \in Read(csv_files[i]) :
         LET c == collect_file(f, csv_files[i])
         IN /\ df' = f
            /\ all_data' = all_data \o c.kept
            /\ covered' = IF f.readable /\ HasRequired(f) /\ "query" \in f.columns
                          THEN covered \cup
                               {<<r.query, r.rows, r.DB>> :
                                   r \in {x \in Range(f.recs) :
                                             x.DB \in target_dbs /\ x.time > 0}}
                          ELSE covered
            /\ single' = (single /\ f.readable /\ HasRequired(f)
                                 /\ "query" \in f.columns /\ Len(f.recs) = 1)
            /\ IF c.raised
               THEN \* the outer except clause ends the aggregation
                    /\ stdout' = Append(stdout, <<"Error generating", 0>>)
                    /\ pc' = "done"
               ELSE /\ stdout' = IF c.msg = "" THEN stdout
                                 ELSE Append(stdout, <<c.msg, csv_files[i]>>)
                    /\ pc' = IF i = Len(csv_files) THEN "compute" ELSE "collect"
    /\ i' = i + 1
    /\ UNCHANGED <<entry, save_plots, csv_files, disk, figs, outputs, chart,
                   geometric_means, calls>>

(* the rest of plot_geometric_mean_performance *)
Compute ==
    /\ pc = "compute"
    /\ LET r == compute_means(all_data, save_plots)
       IN /\ stdout' = Append(stdout, <<r.msg, 0>>)
          /\ geometric_means' = r.means
          /\ chart' = IF r.msg = "No data found" THEN chart ELSE r.chart
          /\ figs' = IF r.fig_open THEN figs \cup {GmFig} ELSE figs
          /\ outputs' = IF r.png THEN outputs \cup {GmPng} ELSE outputs
    /\ pc' = "done"
    /\ UNCHANGED <<entry, save_plots, csv_files, i, disk, df, all_data,
                   covered, single, calls>>

Init ==
    /\ entry \in Entries
    /\ save_plots \in BOOLEAN
    /\ entry # "process_all_csvs" => save_plots   \* the default
    /\ csv_files \in {[k \in 1..n |-> k] : n \in 0..MaxFiles}
    /\ entry = "plot_query_performance" => Len(csv_files) = 1
    /\ pc = "call"
    /\ i = 0
    /\ disk = <<>>
    /\ df = Unreadable
    /\ stdout = <<>>
    /\ calls = <<>>
    /\ figs = {}
    /\ outputs = {}
    /\ chart = NoChart
    /\ all_data = <<>>
    /\ geometric_means = <<>>
    /\ covered = {}
    /\ single = TRUE

Next ==
    \/ Glob
    \/ ProcessFile
    \/ PlotQueryPerformance
    \/ AggStart
    \/ Collect
    \/ Compute

Spec == Init /\ [][Next]_vars

----------------------------------------------------------------------------
(* The claims *)

Driver == entry = "process_all_csvs"

Engines == {"Postgres", "SQLite", "HSQLDB"}

Last(s) == s[Len(s)]

(* the chart on the figure is the one plot_query_performance drew from df *)
ChartOfDf ==
    /\ calls # <<>>
    /\ Last(calls)[1] = "plot_query_performance"
    /\ df.readable
    /\ required_cols \subseteq df.columns

(* the place of a designated engine in the fixed order *)
EnginePlace(db) ==
    CASE db = "Postgres" -> 1 [] db = "SQLite" -> 2 [] db = "HSQLDB" -> 3

FirstSeen(recs, db) ==
    CHOOSE k \in 1..Len(recs) :
        recs[k].DB = db /\ \A j \in 1..(k - 1) : recs[j].DB # db

Q1Covered ==
    {<<"Q1", 1000, "Postgres">>, <<"Q1", 1000, "SQLite">>,
     <<"Q1", 1000, "HSQLDB">>}

(* C1 as claimed: three files that each hold one engine's measurement of   *)
(* Q1 at 1000 rows (10, 20, 40): the three records are retained and the    *)
(* mean reported for 1000 rows is the geometric mean of 10, 20 and 40.     *)
C1_AcrossFiles ==
    (/\ entry = "plot_geometric_mean_performance"
     /\ pc = "done"
     /\ Len(csv_files) = 3
     /\ single
     /\ covered = Q1Covered)
    => /\ \A e \in Engines :
            \E k \in 1..Len(all_data) :
                all_data[k].DB = e /\ all_data[k].query = "Q1"
                    /\ all_data[k].rows = 1000
       /\ \E db \in DOMAIN geometric_means :
            geometric_means[db][1000] = [prod |-> 10 * 20 * 40, n |-> 3]

(* C1 amended: when every file read holds exactly one record, as the three *)
(* files of one engine each do, nothing is retained and no mean is         *)
(* reported: a combination is covered within one file only.  When the      *)
(* three measurements are in the one file read, all three are retained and *)
(* the mean reported for each engine at 1000 rows is that of its own       *)
(* latency, 10, 20 and 40.                                                 *)
C1_WithinOneFile ==
    (pc = "done" /\ calls # <<>>
        /\ Last(calls)[1] = "plot_geometric_mean_performance")
    => /\ single => all_data = <<>> /\ geometric_means = <<>>
       /\ (Len(csv_files) = 1 /\ df = Full3)
            => /\ Len(all_data) = 3
               /\ \A k \in 1..3 :
                    /\ all_data[k].DB = Full3.recs[k].DB
                    /\ all_data[k].time = Full3.recs[k].time
               /\ DOMAIN geometric_means = Engines
               /\ geometric_means["Postgres"][1000] = [prod |-> 10, n |-> 1]
               /\ geometric_means["SQLite"][1000] = [prod |-> 20, n |-> 1]
               /\ geometric_means["HSQLDB"][1000] = [prod |-> 40, n |-> 1]

C1_Witness ==
    /\ entry = "plot_geometric_mean_performance"
    /\ pc = "done"
    /\ Len(csv_files) = 3
    /\ single
    /\ covered = Q1Covered
    /\ all_data = <<>>

(* the (rows, query) group of the retained record r in the table f holds   *)
(* all three designated engines                                            *)
GroupComplete(f, r) ==
    /\ f.readable
    /\ \A e \in Engines :
         \E j \in 1..Len(f.recs) :
            /\ f.recs[j].DB = e
            /\ f.recs[j].rows = r.rows
            /\ f.recs[j].query = r.query

(* C2: every record of all_data has a latency above 0 and a designated     *)
(* engine as its database, and every record a pass of the collection loop  *)
(* appends comes from a (rows, query) group of the file just read that     *)
(* holds all three designated engines; the records retained before stay.   *)
C2_RetainedRecords ==
    /\ [](\A k \in 1..Len(all_data) :
            all_data[k].time > 0 /\ all_data[k].DB \in Engines)
    /\ [][pc = "collect" =>
            /\ Len(all_data') >= Len(all_data)
            /\ SubSeq(all_data', 1, Len(all_data)) = all_data
            /\ \A k \in (Len(all_data) + 1)..Len(all_data') :
                 /\ all_data'[k].file = csv_files[i]
                 /\ GroupComplete(df', all_data'[k])]_vars

C2_Witness ==
    /\ pc \in {"collect", "compute"}
    /\ all_data # <<>>
    /\ Last(all_data).file = csv_files[i - 1]
    /\ \E j \in 1..Len(df.recs) : df.recs[j].time <= 0
    /\ \E j \in 1..Len(df.recs) : df.recs[j].DB = "MySQL"
    /\ \E j \in 1..Len(df.recs) : df.recs[j].query = "Q2"

(* C3: a file that cannot be read never ends the batch: the fault is       *)
(* caught and logged inside plot_query_performance, no exception reaches   *)
(* process_all_csvs, the loop stands at a file while it runs, and once it  *)
(* is over every enumerated file was passed to plot_query_performance.     *)
C3_FaultDoesNotEndBatch ==
    Driver =>
        /\ pc # "crashed"
        /\ pc = "loop" => i \in 1..Len(csv_files) /\ Len(calls) = i - 1
        /\ \A k \in DOMAIN disk :
             ~disk[k].readable => <<"Error processing", k>> \in Range(stdout)
        /\ pc \in {"aggregate", "collect", "compute"} =>
             \A k \in 1..Len(csv_files) :
                <<"plot_query_performance", csv_files[k]>> \in Range(calls)

C3_Witness ==
    /\ Driver
    /\ pc = "aggregate"
    /\ Len(csv_files) >= 2
    /\ ~disk[1].readable
    /\ <<"Saved plot", 2>> \in Range(stdout)

(* C4: for a table that lacks one of DB, rows and the latency column,      *)
(* plot_query_performance prints the skip notice and returns: nothing is   *)
(* raised, no figure is created and no PNG is written for the file.        *)
C4_MissingColumnsSkipped ==
    /\ pc # "crashed"
    /\ \A k \in DOMAIN disk :
         (disk[k].readable /\ ~({"DB", "rows", "Med_ms"} \subseteq disk[k].columns))
         => /\ <<"Skipping", k>> \in Range(stdout)
            /\ <<"Saved plot", k>> \notin Range(stdout)
            /\ <<"Error processing", k>> \notin Range(stdout)
            /\ PerfFig(k) \notin figs
            /\ PerfPng(k) \notin outputs

C4_Witness ==
    /\ pc = "aggregate"
    /\ \E k \in DOMAIN disk :
         /\ disk[k].readable
         /\ "Med_ms" \notin disk[k].columns
         /\ <<"Skipping", k>> \in Range(stdout)

(* the database axis holds each database of the table once and no other,   *)
(* the designated engines first and in their fixed order                   *)
AxisPreferredFirst(dbs, recs) ==
    /\ Range(dbs) = {recs[k].DB : k \in 1..Len(recs)}
    /\ \A a, b \in 1..Len(dbs) : a # b => dbs[a] # dbs[b]
    /\ \A a, b \in 1..Len(dbs) :
         a < b =>
            /\ dbs[a] \notin Engines => dbs[b] \notin Engines
            /\ (dbs[a] \in Engines /\ dbs[b] \in Engines)
                 => EnginePlace(dbs[a]) < EnginePlace(dbs[b])

(* C5 as claimed: in every chart the designated engines that are present   *)
(* come first, in their fixed order, then every other database present in  *)
(* the order it is first met in the input table.                           *)
C5_EncounterOrder ==
    ChartOfDf =>
        /\ AxisPreferredFirst(chart.dbs, df.recs)
        /\ \A a, b \in 1..Len(chart.dbs) :
             (a < b /\ chart.dbs[a] \notin Engines)
             => FirstSeen(df.recs, chart.dbs[a]) < FirstSeen(df.recs, chart.dbs[b])

(* C5 amended: in every chart the designated engines that are present come *)
(* first, in their fixed order, then every other database present in       *)
(* ascending order of its name (the order of the pivoted table); each      *)
(* present database appears once and no absent one appears.                *)
C5_NameOrder ==
    /\ ChartOfDf =>
        /\ AxisPreferredFirst(chart.dbs, df.recs)
        /\ \A a, b \in 1..Len(chart.dbs) :
             (a < b /\ chart.dbs[a] \notin Engines)
             => StrRank(chart.dbs[a]) < StrRank(chart.dbs[b])
    /\ (pc = "done" /\ geometric_means # <<>>) =>
        AxisPreferredFirst(chart.dbs, all_data)

C5_Witness ==
    /\ ChartOfDf
    /\ Len(df.recs) = 3
    /\ df.recs[1].DB = "MySQL"
    /\ df.recs[2].DB = "HSQLDB"
    /\ df.recs[3].DB = "Derby"
    /\ chart.dbs = <<"HSQLDB", "Derby", "MySQL">>

(* the calls process_all_csvs makes when nothing stops it: one of          *)
(* plot_query_performance per enumerated file, in order, then one of       *)
(* plot_geometric_mean_performance                                         *)
AllCalls ==
    [k \in 1..Len(csv_files) |-> <<"plot_query_performance", csv_files[k]>>]
        \o <<<<"plot_geometric_mean_performance", 0>>>>

(* C6 as claimed: in one run of process_all_csvs, plot_query_performance   *)
(* is invoked once on each enumerated file and then                        *)
(* plot_geometric_mean_performance is invoked once, whatever the outcomes. *)
C6_AlwaysAggregates ==
    Driver => /\ pc # "crashed"
              /\ pc = "done" => calls = AllCalls

(* C6 amended: when at least one file is enumerated, the run invokes       *)
(* plot_query_performance once on each enumerated file and then            *)
(* plot_geometric_mean_performance once, whatever the per-file outcomes;   *)
(* when no file is enumerated it invokes neither.                          *)
C6_AggregatesWhenFiles ==
    Driver => /\ pc # "crashed"
              /\ pc = "done" =>
                    calls = IF csv_files = <<>> THEN <<>> ELSE AllCalls
              /\ \A k \in 1..Len(calls) :
                    calls[k][1] = "plot_geometric_mean_performance"
                        => k = Len(csv_files) + 1

C6_Witness ==
    /\ Driver
    /\ pc = "done"
    /\ Len(calls) = 4
    /\ \E a, b, c \in 1..3 :
         /\ <<"Error processing", a>> \in Range(stdout)
         /\ <<"Skipping", b>> \in Range(stdout)
         /\ <<"Saved plot", c>> \in Range(stdout)

(* C7 as claimed: in save mode every figure plot_query_performance created *)
(* is closed when the call returns, on every exit path, so none is open    *)
(* when the next file or the aggregator starts.                            *)
C7_NoFigureLeftOpen ==
    save_plots => \A k \in 1..Len(csv_files) : PerfFig(csv_files[k]) \notin figs

RECURSIVE TotalOf(_, _, _, _)
TotalOf(recs, db, rows, n) ==
    IF n = 0 THEN 0
    ELSE TotalOf(recs, db, rows, n - 1)
            + (IF recs[n].DB = db /\ recs[n].rows = rows THEN recs[n].time ELSE 0)

CountOf(recs, db, rows) ==
    Cardinality({k \in 1..Len(recs) : recs[k].DB = db /\ recs[k].rows = rows})

(* C8: the pivoted view holds exactly one value for each (DB, rows) pair   *)
(* of the table, none for any other pair, and the value is the arithmetic  *)
(* mean of the latencies of all the records of the pair.                   *)
C8_PivotIsMean ==
    ChartOfDf =>
        LET pv == chart.pivot_df
            recs == df.recs
        IN /\ \A j \in 1..Len(recs) :
                Cardinality({k \in 1..Len(pv) :
                    pv[k].DB = recs[j].DB /\ pv[k].rows = recs[j].rows}) = 1
           /\ \A k \in 1..Len(pv) :
                /\ CountOf(recs, pv[k].DB, pv[k].rows) > 0
                /\ pv[k].val.den > 0
                /\ pv[k].val.num * CountOf(recs, pv[k].DB, pv[k].rows)
                     = TotalOf(recs, pv[k].DB, pv[k].rows, Len(recs)) * pv[k].val.den

C8_Witness ==
    /\ ChartOfDf
    /\ Len(df.recs) = 3
    /\ \A k \in 1..3 : df.recs[k].DB = "Postgres" /\ df.recs[k].rows = 1000
    /\ df.recs[1].time = 10 /\ df.recs[2].time = 10 /\ df.recs[3].time = 20
    /\ Len(chart.pivot_df) = 1
    /\ chart.pivot_df[1].val = [num |-> 40, den |-> 3]

(* C9 as claimed: every (query, rows) combination with a retained record   *)
(* has a retained record of each of the three designated engines.          *)
C9_SameQueriesPerEngine ==
    \A k \in 1..Len(all_data) :
        \A e \in Engines :
            \E j \in 1..Len(all_data) :
                /\ all_data[j].DB = e
                /\ all_data[j].query = all_data[k].query
                /\ all_data[j].rows = all_data[k].rows

(* the file cannot be read, or has the required columns and no query one *)
Faults(f) ==
    \/ ~f.readable
    \/ /\ {"DB", "rows", "Med_ms"} \subseteq f.columns
       /\ "query" \notin f.columns

(* C10: a pass of the collection loop over a file that raises adds no      *)
(* record to all_data and leaves the retained ones as they are, prints the *)
(* error, and goes on to the next file (or, after the last file, to the    *)
(* rest of the aggregation): the aggregation is not aborted.               *)
C10_FaultingFileContributesNothing ==
    [][(pc = "collect" /\ Faults(df')) =>
            /\ all_data' = all_data
            /\ stdout' = Append(stdout, <<"Error reading", csv_files[i]>>)
            /\ i' = i + 1
            /\ pc' = IF i < Len(csv_files) THEN "collect" ELSE "compute"]_vars

C10_Witness ==
    /\ pc = "collect"
    /\ i = 3
    /\ all_data # <<>>
    /\ Faults(df)
    /\ "query" \notin df.columns
    /\ Last(stdout) = <<"Error reading", 2>>

====
